---------------------------- MODULE Spec2Model ----------------------------
(***************************************************************************)
(* Model of src/main.rs (huffman.rs): the pipeline                         *)
(*   build_freq_map -> build_huffman_tree -> build_code_table -> compress  *)
(* run by huffman_code, followed by huffman_decode as the test             *)
(* tests::encode_decode calls it.                                          *)
(*                                                                         *)
(* A String is a sequence of one-character strings, a HashMap is a         *)
(* function whose DOMAIN is its key set, a SmallBitVec is a sequence of    *)
(* BOOLEAN, a BinaryHeap is the sequence of the nodes it holds, from which *)
(* pop removes any greatest element under Ord (every tie-break the heap    *)
(* may make), and HashMap iteration visits the keys in any order.          *)
(***************************************************************************)
EXTENDS Integers, Sequences, FiniteSets

\* ------------------------------------------------------------------ bounds
MaxLen == 4

NumSyms == 3

Symbols == <<"a", "b", "c", "d", "e", "f">>

Alphabet == {Symbols[k] : k \in 1..NumSyms}

\* ----------------------------------------------------------------- helpers
Range(f) == {f[x] : x \in DOMAIN f}

RemoveAt(q, k) == [j \in 1..(Len(q) - 1) |-> IF j < k THEN q[j] ELSE q[j + 1]]

Repeat(c, n) == [k \in 1..n |-> c]

None == <<>>

Some(x) == <<x>>

\* tests::build_input: 5 a, 9 b, 12 c, 13 d, 16 e, 45 f
build_input ==
    Repeat("a", 5) \o Repeat("b", 9) \o Repeat("c", 12) \o
    Repeat("d", 13) \o Repeat("e", 16) \o Repeat("f", 45)

\* the texts huffman_code is run on
Texts == (UNION {[1..n -> Alphabet] : n \in 0..MaxLen}) \cup {build_input}

\* ------------------------------------------------------------------- nodes
Leaf(c, f) == [freq |-> f, data |-> [type |-> "Leaf", sym |-> c]]

InternalFreqOfFirst(node1, node2) ==
    [freq |-> node1.freq,
     data |-> [type |-> "Internal", left_child |-> node1, right_child |-> node2]]

InternalSwapped(node1, node2) ==
    [freq |-> node1.freq + node2.freq,
     data |-> [type |-> "Internal", left_child |-> node2, right_child |-> node1]]

\* the node pushed by the merge loop: node1 popped first, node2 second
Internal(node1, node2) ==
    [freq |-> node1.freq + node2.freq,
     data |-> [type |-> "Internal", left_child |-> node1, right_child |-> node2]]

\* i32::cmp
IntCmp(a, b) == IF a < b THEN "Less" ELSE IF a = b THEN "Equal" ELSE "Greater"

cmpMaxHeap(self, other) == IntCmp(self.freq, other.freq)

cmpAllEqual(self, other) == "Equal"

\* impl Ord for Node: reversed, so that BinaryHeap is a min-heap on freq
cmp(self, other) == IntCmp(other.freq, self.freq)

\* BinaryHeap::pop returns a greatest element under Ord: the positions of the
\* nodes no other node of the heap is Greater than
PopCandidates(heap) ==
    {k \in 1..Len(heap) :
        \A j \in 1..Len(heap) : cmp(heap[j], heap[k]) # "Greater"}

\* ------------------------------------------------------------ freq counting
or_insert_then_add(m, c) ==
    [x \in (DOMAIN m) \cup {c} |->
        IF x = c THEN (IF c \in DOMAIN m THEN m[c] ELSE 0) + 1 ELSE m[x]]

\* -------------------------------------------------------------- code table
PushChildrenSameBit(stack, node, code) ==
    stack \o <<[node |-> node.data.left_child,  code |-> Append(code, "0")],
               [node |-> node.data.right_child, code |-> Append(code, "0")]>>

PushChildrenLeftOnly(stack, node, code) ==
    Append(stack, [node |-> node.data.left_child, code |-> Append(code, "0")])

\* Internal arm of build_code_table: left pushed with code+"0", then right
\* with code+"1"
PushChildren(stack, node, code) ==
    stack \o <<[node |-> node.data.left_child,  code |-> Append(code, "0")],
               [node |-> node.data.right_child, code |-> Append(code, "1")]>>

\* HashMap::insert
insert(m, key, val) == [x \in (DOMAIN m) \cup {key} |-> IF x = key THEN val ELSE m[x]]

\* ---------------------------------------------------------------- compress
BitsInverted(code) == [k \in 1..Len(code) |-> code[k] # "1"]

\* compress: each char of a code becomes a bit, '1' true and anything else false
Bits(code) == [k \in 1..Len(code) |-> code[k] = "1"]

\* ------------------------------------------------------------------- state
VARIABLES
    s,            \* the input text
    pc,           \* the position in huffman_code / huffman_decode
    i,            \* the position of s.chars() in build_freq_map and compress
    freq_map,     \* build_freq_map's map
    pending,      \* keys freq_map.iter() has not yet yielded
    min_heap,     \* build_huffman_tree's heap
    merges,       \* iterations of the merge loop so far (history)
    tree,         \* the value build_huffman_tree returned (None before)
    node_stack,   \* build_code_table's work stack
    table,        \* build_code_table's table
    compressed,   \* the bits compress has collected
    decoded       \* the value huffman_decode returned (None before)

vars == <<s, pc, i, freq_map, pending, min_heap, merges, tree, node_stack,
          table, compressed, decoded>>

Init ==
    /\ s \in Texts
    /\ pc = "build_freq_map"
    /\ i = 1
    /\ freq_map = <<>>
    /\ pending = {}
    /\ min_heap = <<>>
    /\ merges = 0
    /\ tree = None
    /\ node_stack = <<>>
    /\ table = <<>>
    /\ compressed = <<>>
    /\ decoded = None

\* build_freq_map, one iteration of `for c in s.chars()`
BuildFreqMapStep ==
    /\ pc = "build_freq_map"
    /\ i <= Len(s)
    /\ freq_map' = or_insert_then_add(freq_map, s[i])
    /\ i' = i + 1
    /\ UNCHANGED <<s, pc, pending, min_heap, merges, tree, node_stack, table,
                   compressed, decoded>>

\* build_freq_map returns; build_huffman_tree starts iterating freq_map
BuildFreqMapReturn ==
    /\ pc = "build_freq_map"
    /\ i > Len(s)
    /\ pc' = "populate"
    /\ pending' = DOMAIN freq_map
    /\ UNCHANGED <<s, i, freq_map, min_heap, merges, tree, node_stack, table,
                   compressed, decoded>>

\* one iteration of `for (c, freq) in freq_map.iter()`: any remaining key
PushLeaf ==
    /\ pc = "populate"
    /\ \E c \in pending :
        /\ min_heap' = Append(min_heap, Leaf(c, freq_map[c]))
        /\ pending' = pending \ {c}
    /\ UNCHANGED <<s, pc, i, freq_map, merges, tree, node_stack, table,
                   compressed, decoded>>

\* the iterator is exhausted; the merge loop starts
PopulateDone ==
    /\ pc = "populate"
    /\ pending = {}
    /\ pc' = "merge"
    /\ UNCHANGED <<s, i, freq_map, pending, min_heap, merges, tree,
                   node_stack, table, compressed, decoded>>

\* one iteration of `while min_heap.len() > 1`
Merge ==
    /\ pc = "merge"
    /\ Len(min_heap) > 1
    /\ \E k1 \in PopCandidates(min_heap) :
        LET node1 == min_heap[k1]
            rest1 == RemoveAt(min_heap, k1)
        IN  \E k2 \in PopCandidates(rest1) :
                LET node2 == rest1[k2]
                    rest2 == RemoveAt(rest1, k2)
                IN  min_heap' = Append(rest2, Internal(node1, node2))
    /\ merges' = merges + 1
    /\ UNCHANGED <<s, pc, i, freq_map, pending, tree, node_stack, table,
                   compressed, decoded>>

\* `min_heap.pop().unwrap()` with one node left: the root is returned and
\* build_code_table pushes (root, String::new())
BuildHuffmanTreeReturn ==
    /\ pc = "merge"
    /\ Len(min_heap) = 1
    /\ tree' = Some(min_heap[1])
    /\ min_heap' = <<>>
    /\ node_stack' = <<[node |-> min_heap[1], code |-> <<>>]>>
    /\ pc' = "build_code_table"
    /\ UNCHANGED <<s, i, freq_map, pending, merges, table, compressed, decoded>>

\* `min_heap.pop().unwrap()` on an empty heap: unwrap of None panics
BuildHuffmanTreePanic ==
    /\ pc = "merge"
    /\ Len(min_heap) = 0
    /\ pc' = "panicked"
    /\ UNCHANGED <<s, i, freq_map, pending, min_heap, merges, tree,
                   node_stack, table, compressed, decoded>>

\* build_code_table, one iteration of the loop on an Internal node
BuildCodeTableInternal ==
    /\ pc = "build_code_table"
    /\ node_stack # <<>>
    /\ LET top  == node_stack[Len(node_stack)]
           rest == SubSeq(node_stack, 1, Len(node_stack) - 1)
       IN  /\ top.node.data.type = "Internal"
           /\ node_stack' = PushChildren(rest, top.node, top.code)
    /\ UNCHANGED <<s, pc, i, freq_map, pending, min_heap, merges, tree, table,
                   compressed, decoded>>

\* build_code_table, one iteration of the loop on a Leaf
BuildCodeTableLeaf ==
    /\ pc = "build_code_table"
    /\ node_stack # <<>>
    /\ LET top  == node_stack[Len(node_stack)]
           rest == SubSeq(node_stack, 1, Len(node_stack) - 1)
       IN  /\ top.node.data.type = "Leaf"
           /\ node_stack' = rest
           /\ table' = insert(table, top.node.data.sym, top.code)
    /\ UNCHANGED <<s, pc, i, freq_map, pending, min_heap, merges, tree,
                   compressed, decoded>>

\* build_code_table returns; compress starts at the first char
BuildCodeTableReturn ==
    /\ pc = "build_code_table"
    /\ node_stack = <<>>
    /\ pc' = "compress"
    /\ i' = 1
    /\ UNCHANGED <<s, freq_map, pending, min_heap, merges, tree, node_stack,
                   table, compressed, decoded>>

\* compress, one char: table.get(&c).unwrap() and the bits of its code
CompressStep ==
    /\ pc = "compress"
    /\ i <= Len(s)
    /\ IF s[i] \in DOMAIN table
         THEN /\ compressed' = compressed \o Bits(table[s[i]])
              /\ i' = i + 1
              /\ pc' = pc
         ELSE /\ pc' = "panicked"
              /\ UNCHANGED <<i, compressed>>
    /\ UNCHANGED <<s, freq_map, pending, min_heap, merges, tree, node_stack,
                   table, decoded>>

\* compress returns and huffman_code returns the HuffmanCode
HuffmanCodeReturn ==
    /\ pc = "compress"
    /\ i > Len(s)
    /\ pc' = "encoded"
    /\ UNCHANGED <<s, i, freq_map, pending, min_heap, merges, tree,
                   node_stack, table, compressed, decoded>>

\* huffman_decode: returns String::new()
HuffmanDecode ==
    /\ pc = "encoded"
    /\ decoded' = Some(<<>>)
    /\ pc' = "done"
    /\ UNCHANGED <<s, i, freq_map, pending, min_heap, merges, tree,
                   node_stack, table, compressed>>

Next ==
    \/ BuildFreqMapStep
    \/ BuildFreqMapReturn
    \/ PushLeaf
    \/ PopulateDone
    \/ Merge
    \/ BuildHuffmanTreeReturn
    \/ BuildHuffmanTreePanic
    \/ BuildCodeTableInternal
    \/ BuildCodeTableLeaf
    \/ BuildCodeTableReturn
    \/ CompressStep
    \/ HuffmanCodeReturn
    \/ HuffmanDecode

Spec == Init /\ [][Next]_vars

\* ------------------------------------------------ definitions for the claims
AfterTree == {"build_code_table", "compress", "encoded", "done"}

AfterTable == {"compress", "encoded", "done"}

Distinct == Cardinality(Range(s))

Count(x) == Cardinality({k \in 1..Len(s) : s[k] = x})

IsPrefix(a, b) == Len(a) <= Len(b) /\ SubSeq(b, 1, Len(a)) = a

RECURSIVE LeafSeq(_)
LeafSeq(node) ==
    IF node.data.type = "Leaf"
      THEN <<node.data.sym>>
      ELSE LeafSeq(node.data.left_child) \o LeafSeq(node.data.right_child)

RECURSIVE InternalCount(_)
InternalCount(node) ==
    IF node.data.type = "Leaf"
      THEN 0
      ELSE 1 + InternalCount(node.data.left_child)
             + InternalCount(node.data.right_child)

RECURSIVE FreqOK(_)
FreqOK(node) ==
    /\ node.freq >= 1
    /\ node.data.type = "Internal" =>
         /\ node.freq = node.data.left_child.freq + node.data.right_child.freq
         /\ FreqOK(node.data.left_child)
         /\ FreqOK(node.data.right_child)

RECURSIVE LeftLeRight(_)
LeftLeRight(node) ==
    node.data.type = "Internal" =>
         /\ node.data.left_child.freq <= node.data.right_child.freq
         /\ LeftLeRight(node.data.left_child)
         /\ LeftLeRight(node.data.right_child)

RECURSIVE SumFreq(_)
SumFreq(q) == IF q = <<>> THEN 0 ELSE q[1].freq + SumFreq(Tail(q))

RECURSIVE ConcatCodes(_, _)
ConcatCodes(text, tbl) ==
    IF text = <<>>
      THEN <<>>
      ELSE [k \in 1..Len(tbl[text[1]]) |->
                IF tbl[text[1]][k] = "1" THEN TRUE ELSE FALSE]
           \o ConcatCodes(Tail(text), tbl)

RECURSIVE SumCodeLen(_, _)
SumCodeLen(text, tbl) ==
    IF text = <<>> THEN 0 ELSE Len(tbl[text[1]]) + SumCodeLen(Tail(text), tbl)

\* the tree tests::huffman_tree expects
ExpectedTree ==
    [freq |-> 100, data |-> [type |-> "Internal",
      left_child |-> [freq |-> 45, data |-> [type |-> "Leaf", sym |-> "f"]],
      right_child |-> [freq |-> 55, data |-> [type |-> "Internal",
        left_child |-> [freq |-> 25, data |-> [type |-> "Internal",
          left_child |-> [freq |-> 12, data |-> [type |-> "Leaf", sym |-> "c"]],
          right_child |-> [freq |-> 13, data |-> [type |-> "Leaf", sym |-> "d"]]]],
        right_child |-> [freq |-> 30, data |-> [type |-> "Internal",
          left_child |-> [freq |-> 14, data |-> [type |-> "Internal",
            left_child |-> [freq |-> 5, data |-> [type |-> "Leaf", sym |-> "a"]],
            right_child |-> [freq |-> 9, data |-> [type |-> "Leaf", sym |-> "b"]]]],
          right_child |-> [freq |-> 16, data |-> [type |-> "Leaf", sym |-> "e"]]]]]]]]

\* the table tests::code_table expects
ExpectedTable ==
    [x \in {"a", "b", "c", "d", "e", "f"} |->
        CASE x = "f" -> <<"0">>
          [] x = "c" -> <<"1", "0", "0">>
          [] x = "d" -> <<"1", "0", "1">>
          [] x = "a" -> <<"1", "1", "0", "0">>
          [] x = "b" -> <<"1", "1", "0", "1">>
          [] x = "e" -> <<"1", "1", "1">>]

\* ------------------------------------------------------------------ claims

\* C1: round trip. For every non-empty text, huffman_decode applied to the
\* result of huffman_code(text) returns exactly text.
C1_RoundTrip ==
    (pc = "done" /\ s # <<>>) => decoded = Some(s)

\* C2: for the frequencies a:5 b:9 c:12 d:13 e:16 f:45, build_huffman_tree
\* returns the root of freq 100 with left leaf f(45) and right subtree
\* ((c,d),((a,b),e)), and build_code_table returns f->0, c->100, d->101,
\* a->1100, b->1101, e->111, whatever order the leaves are pushed in.
C2_ExampleTreeAndTable ==
    s = build_input =>
        /\ pc \in AfterTree =>
              /\ tree = Some(ExpectedTree)
              /\ tree[1].freq = 100
        /\ pc \in AfterTable => table = ExpectedTable

C2_Witness ==
    /\ s = build_input
    /\ pc = "done"
    /\ freq_map["a"] = 5 /\ freq_map["f"] = 45
    /\ Len(table["a"]) = 4

\* C3: for every non-empty text and every tie-break, the code table is
\* prefix-free: for two distinct symbols neither code is a prefix of the other.
C3_PrefixFree ==
    (pc \in AfterTable /\ s # <<>>) =>
        \A x \in DOMAIN table : \A y \in DOMAIN table :
            x # y => ~IsPrefix(table[x], table[y])

C3_Witness ==
    /\ pc \in AfterTable
    /\ Cardinality(DOMAIN table) >= 3
    /\ \E x \in DOMAIN table : \E y \in DOMAIN table :
          Len(table[x]) < Len(table[y])

\* C4: for a text with exactly one distinct symbol, the table has one entry
\* whose code is the single bit "0" and the output has one bit per symbol.
C4_SingleSymbol ==
    (pc \in {"encoded", "done"} /\ Distinct = 1) =>
        /\ DOMAIN table = Range(s)
        /\ \A c \in DOMAIN table : table[c] = <<"0">>
        /\ Len(compressed) = Len(s)

\* C5: building a tree from an empty frequency map fails with an EmptyInput
\* validation error returned to the caller as an error outcome (not a panic),
\* and no tree, code table or encoded output is produced.
C5_EmptyInput ==
    (s = <<>> /\ pc \notin {"build_freq_map", "populate", "merge"}) =>
        /\ pc = "EmptyInput"
        /\ tree = None
        /\ table = <<>>
        /\ compressed = <<>>

\* C6: for every non-empty text and every tie-break, a symbol that occurs
\* strictly more often than another has a code no longer than the other's.
C6_Monotone ==
    (pc \in AfterTable /\ s # <<>>) =>
        \A x \in DOMAIN table : \A y \in DOMAIN table :
            Count(x) > Count(y) => Len(table[x]) <= Len(table[y])

C6_Witness ==
    /\ pc \in AfterTable
    /\ \E x \in DOMAIN table : \E y \in DOMAIN table :
          Count(x) > Count(y) /\ Len(table[x]) < Len(table[y])

\* C7: the output of compress is the concatenation, in input order, of the
\* code of each input symbol ('1' as true, '0' as false), so its length is the
\* sum over the input positions of the length of that symbol's code.
C7_CompressConcat ==
    /\ pc = "compress" =>
          compressed = ConcatCodes(SubSeq(s, 1, i - 1), table)
    /\ pc \in {"encoded", "done"} =>
          /\ compressed = ConcatCodes(s, table)
          /\ Len(compressed) = SumCodeLen(s, table)
          /\ \A c \in DOMAIN table : Range(table[c]) \subseteq {"0", "1"}

C7_Witness ==
    /\ pc = "encoded"
    /\ Len(s) = MaxLen
    /\ Distinct >= 3
    /\ Len(compressed) > Len(s)

\* C8: for every non-empty text, the symbols at the leaves of the tree and the
\* keys of the code table are exactly the distinct symbols of the text, each
\* at exactly one leaf, so compress never misses a symbol.
C8_Coverage ==
    s # <<>> =>
        /\ pc \in AfterTree =>
              /\ Range(LeafSeq(tree[1])) = Range(s)
              /\ Len(LeafSeq(tree[1])) = Distinct
        /\ pc \in AfterTable => DOMAIN table = Range(s)
        /\ pc # "panicked"

C8_Witness ==
    /\ pc = "done"
    /\ Distinct = NumSyms
    /\ DOMAIN table = Alphabet
    /\ Len(s) > NumSyms

\* C9: in every state of the merge loop every node of the queue has
\* freq >= 1, every Internal node's freq is the sum of its children's
\* (recursively), and the freqs in the queue sum to the length of the input;
\* the returned root has freq equal to the length of the input.
C9_FreqInvariant ==
    /\ pc = "merge" =>
          /\ \A k \in 1..Len(min_heap) : FreqOK(min_heap[k])
          /\ SumFreq(min_heap) = Len(s)
    /\ pc \in AfterTree =>
          /\ FreqOK(tree[1])
          /\ tree[1].freq = Len(s)

C9_Witness ==
    /\ pc = "merge"
    /\ merges >= 1
    /\ Len(min_heap) >= 2
    /\ Len(s) = MaxLen

=============================================================================
